---- MODULE Spec2Model ----
(***************************************************************************)
(* Model of the weather subsystem of kisaan_mitra:                         *)
(*   - weather/offline_manager.py  OfflineDataManager (local SQLite queue, *)
(*     sync into the canonical store, retention cleanup)                   *)
(*   - weather/repositories.py     WeatherRepository (cached reads,        *)
(*     validated writes), with the WeatherAlert lifecycle of models.py     *)
(*   - weather/language_utils.py   WeatherTranslator                       *)
(*   - weather/services.py         WeatherAnalysisService risk factors,    *)
(*     agricultural metrics, trends and soil moisture bands                *)
(* Time is counted in minutes.  The local SQLite database is modelled by   *)
(* its committed tables, the connection holding its write lock, and each   *)
(* sync pass's uncommitted UPDATEs.  ret records the API call that         *)
(* returned last, got the last answer of get_current_weather, call the     *)
(* translator or the reading under assessment with its last result,        *)
(* canon_fc the canonical WeatherForecast table.                           *)
(***************************************************************************)
EXTENDS Integers, Sequences, FiniteSets, TLC

VARIABLES now, locations, wd, al, nextWd, nextAl, canon_wd, canon_al,
          lock, lastSync, pc, arg, todo, marks, ret, cwCache, got,
          nextLoc, locCache, call, canon_fc

vars == <<now, locations, wd, al, nextWd, nextAl, canon_wd, canon_al,
          lock, lastSync, pc, arg, todo, marks, ret, cwCache, got,
          nextLoc, locCache, call, canon_fc>>

\* ---------------------------------------------------------------- bounds
MaxRows == 2
MaxCanon == 2
MaxHours == 6
MaxMinutes == 6
MaxLocs == 2
MaxAlertClock == 1
MaxForecasts == 3
MaxDays == 1
MaxSeries == 3

\* ------------------------------------------------------ program constants
SYNC_FREQUENCY == 6
MIN_STORAGE_DAYS == 3
CACHE_TIMEOUT == 300
CURRENT_WEATHER == 1
MIN_TEMPERATURE == -50
MAX_TEMPERATURE == 60
MIN_HUMIDITY == 0
MAX_HUMIDITY == 100
MAX_WIND_SPEED == 200
MAX_RAINFALL == 500
HIGH_HUMIDITY == 80
HIGH_TEMPERATURE == 35
LOW_TEMPERATURE == 2
LOW_SOIL_MOISTURE == 30
HIGH_SOIL_MOISTURE == 70
MAX_FORECAST_DAYS == 7
ALERT_SEVERITY_LEVELS == [LOW |-> 1, MEDIUM |-> 2, HIGH |-> 3, EXTREME |-> 4]
DEFAULT_LANGUAGE == "hi"
LANGUAGES == {"hi", "hr", "en"}

SyncInterval == SYNC_FREQUENCY * 60
RetentionMinutes == MIN_STORAGE_DAYS * 24 * 60
CacheTtl == CACHE_TIMEOUT \div 60
RecencyWindow == CURRENT_WEATHER * 60

\* --------------------------------------------------------- input domains
Procs == {1, 2}
LocIds == {1, 2}
InitLocations == {1}
Kinds == {"weather_data", "alert", "forecast", "invalid_type"}
Temps == {25}
AlertTypes == {"FROST"}
Severities == {"LOW", "MEDIUM", "HIGH", "EXTREME"}
None == [none |-> TRUE]

\* datetime.isoformat(): the text form is modelled by its date and
\* time-of-day parts; SQLite compares the TEXT columns lexicographically.
isoformat(t) == <<t \div (24 * 60), t % (24 * 60)>>
fromisoformat(s) == s[1] * (24 * 60) + s[2]
TextLess(a, b) == a[1] < b[1] \/ (a[1] = b[1] /\ a[2] < b[2])
TextGeq(a, b) == ~TextLess(a, b)

RECURSIVE fetchall(_)
fetchall(S) ==
  IF S = {} THEN <<>>
  ELSE LET r == CHOOSE x \in S : \A y \in S : x.id <= y.id
       IN <<r>> \o fetchall(S \ {r})

\* The cache entry weather_last_sync_<L>, set with
\* timeout = sync_interval * 3600 seconds: lastSync maps the locations whose
\* entry has not expired to the time stored in it.
CacheGetLastSync(L) == L \in DOMAIN lastSync

NoRet == [op |-> "none", loc |-> 0, kind |-> "", val |-> FALSE,
          why |-> "", row |-> None, rest |-> <<>>]

InitStores ==
  /\ now = 0
  /\ locations = InitLocations
  /\ wd = {} /\ al = {}
  /\ nextWd = 1 /\ nextAl = 1
  /\ canon_wd = <<>> /\ canon_al = <<>>
  /\ lock = 0
  /\ lastSync = <<>>
  /\ pc = [p \in Procs |-> "idle"]
  /\ arg = [p \in Procs |-> 0]
  /\ todo = [p \in Procs |-> <<>>]
  /\ marks = [p \in Procs |-> [wd |-> {}, al |-> {}]]
  /\ ret = NoRet
  /\ cwCache = <<>>
  /\ got = None
  /\ nextLoc = Cardinality(InitLocations) + 1
  /\ locCache = <<>>
  /\ canon_fc = <<>>

Init == InitStores /\ call = None

\* ------------------------------------------------- store_offline_data
AlertDuration == SyncInterval
WeatherPayloads ==
  [temperature : Temps, timestamp : {now, now - RetentionMinutes}]
AlertPayloads ==
  {[alert_type |-> t, severity |-> "HIGH",
    start_time |-> e - AlertDuration, end_time |-> e] :
     t \in AlertTypes, e \in {now + AlertDuration, now - RetentionMinutes}}
Payloads(kind) == IF kind = "weather_data" THEN WeatherPayloads
                  ELSE IF kind = "alert" THEN AlertPayloads
                  ELSE {None}

StoreInsertsWeather(data_type) == data_type = "weather_data"
StoreInsertsAlert(data_type) == data_type = "alert"

\* The local weather_forecasts table (offline_manager.py:54-64) is created
\* empty, and no statement of the manager inserts into it.
weather_forecasts == {}

\* the local table that holds the rows of a kind
LocalTable(data_type) ==
  IF data_type = "weather_data" THEN wd
  ELSE IF data_type = "alert" THEN al
  ELSE weather_forecasts

\* the same table after a step
LocalTableAfter(data_type) ==
  IF data_type = "weather_data" THEN wd'
  ELSE IF data_type = "alert" THEN al'
  ELSE weather_forecasts

\* offline_manager.py:167-224.  INSERT needs the database write lock; when a
\* sync pass holds it the INSERT raises sqlite3.OperationalError and the
\* call returns False.  A data_type matching neither branch inserts nothing
\* and falls through to commit and return True.
store_offline_data(L, data_type, data) ==
  /\ nextWd + nextAl - 2 < MaxRows
  /\ IF (StoreInsertsWeather(data_type) \/ StoreInsertsAlert(data_type)) /\ lock # 0
     THEN /\ ret' = [NoRet EXCEPT !.op = "store", !.loc = L, !.kind = data_type,
                                  !.val = FALSE, !.why = "locked", !.row = data]
          /\ UNCHANGED <<wd, al, nextWd, nextAl>>
     ELSE /\ ret' = [NoRet EXCEPT !.op = "store", !.loc = L, !.kind = data_type,
                                  !.val = TRUE, !.row = data]
          /\ IF StoreInsertsWeather(data_type)
             THEN /\ wd' = wd \cup {[id |-> nextWd, loc |-> L,
                                     temperature |-> data.temperature,
                                     timestamp |-> isoformat(data.timestamp),
                                     sync_status |-> "pending"]}
                  /\ nextWd' = nextWd + 1
                  /\ UNCHANGED <<al, nextAl>>
             ELSE IF StoreInsertsAlert(data_type)
             THEN /\ al' = al \cup {[id |-> nextAl, loc |-> L,
                                     alert_type |-> data.alert_type,
                                     severity |-> data.severity,
                                     start_time |-> isoformat(data.start_time),
                                     end_time |-> isoformat(data.end_time),
                                     sync_status |-> "pending"]}
                  /\ nextAl' = nextAl + 1
                  /\ UNCHANGED <<wd, nextWd>>
             ELSE UNCHANGED <<wd, al, nextWd, nextAl>>
  /\ UNCHANGED <<now, locations, nextLoc, locCache, call, canon_wd, canon_al, lock, lastSync, pc, arg,
                 todo, marks, cwCache, got,
                 canon_fc>>

\* ---------------------------------------------------------- sync_data
\* Model.save(): the INSERT into the canonical store fails with an
\* IntegrityError when the row's location_id names no Location.
SaveSucceeds(row) == row.loc \in locations

Pending(table) == {r \in table : r.sync_status = "pending"}

\* "SELECT * FROM weather_data WHERE sync_status = 'pending'"
SelectPendingWeather(location_id) == fetchall(Pending(wd))
\* "SELECT * FROM weather_alerts WHERE sync_status = 'pending'"
SelectPendingAlerts(location_id) == fetchall(Pending(al))

\* Mutant: the except branch lets the exception go on to the caller.
SyncFail_reraise(p, why, kind) ==
  /\ pc' = [pc EXCEPT ![p] = "idle"]
  /\ marks' = [marks EXCEPT ![p] = [wd |-> {}, al |-> {}]]
  /\ lock' = IF lock = p THEN 0 ELSE lock
  /\ ret' = [NoRet EXCEPT !.op = "sync", !.loc = arg[p], !.val = FALSE,
                          !.why = "raised", !.kind = kind, !.rest = todo[p]]
  /\ todo' = [todo EXCEPT ![p] = <<>>]
  /\ arg' = [arg EXCEPT ![p] = 0]

\* The except branch (offline_manager.py:163-165): the connection is neither
\* committed nor closed, so its transaction is rolled back when the
\* connection object is released.  ret.rest keeps the rows the loop had not
\* finished, the failing one first.
SyncFail(p, why, kind) ==
  /\ pc' = [pc EXCEPT ![p] = "idle"]
  /\ marks' = [marks EXCEPT ![p] = [wd |-> {}, al |-> {}]]
  /\ lock' = IF lock = p THEN 0 ELSE lock
  /\ ret' = [NoRet EXCEPT !.op = "sync", !.loc = arg[p], !.val = FALSE,
                          !.why = why, !.kind = kind, !.rest = todo[p]]
  /\ todo' = [todo EXCEPT ![p] = <<>>]
  /\ arg' = [arg EXCEPT ![p] = 0]

\* offline_manager.py:97-110.  A marker found in the cache makes
\* (timezone.now() - last_sync).hours raise AttributeError (timedelta has no
\* attribute hours), which the except branch turns into False.
RateLimitedResult == FALSE

\* Mutant: the last-sync entry is written when the pass begins.
SyncStart_marksAtStart(p, L) ==
  /\ pc[p] = "idle"
  /\ IF CacheGetLastSync(L)
     THEN /\ ret' = [NoRet EXCEPT !.op = "sync", !.loc = L,
                                  !.val = RateLimitedResult, !.why = "ratelimited"]
          /\ UNCHANGED <<pc, arg, todo, lastSync>>
     ELSE /\ arg' = [arg EXCEPT ![p] = L]
          /\ todo' = [todo EXCEPT ![p] = SelectPendingWeather(L)]
          /\ pc' = [pc EXCEPT ![p] = IF SelectPendingWeather(L) = <<>>
                                     THEN "fetch_alerts" ELSE "save_wd"]
          /\ UNCHANGED ret
          /\ lastSync' = [K \in DOMAIN lastSync \cup {L} |->
                            IF K = L THEN now ELSE lastSync[K]]
  /\ UNCHANGED <<now, locations, nextLoc, locCache, call, wd, al, nextWd, nextAl, canon_wd, canon_al,
                 lock, marks, cwCache, got,
                 canon_fc>>

\* offline_manager.py:97-110
SyncStart(p, L) ==
  /\ pc[p] = "idle"
  /\ IF CacheGetLastSync(L)
     THEN /\ ret' = [NoRet EXCEPT !.op = "sync", !.loc = L,
                                  !.val = RateLimitedResult, !.why = "ratelimited"]
          /\ UNCHANGED <<pc, arg, todo>>
     ELSE /\ arg' = [arg EXCEPT ![p] = L]
          /\ todo' = [todo EXCEPT ![p] = SelectPendingWeather(L)]
          /\ pc' = [pc EXCEPT ![p] = IF SelectPendingWeather(L) = <<>>
                                     THEN "fetch_alerts" ELSE "save_wd"]
          /\ UNCHANGED ret
  /\ UNCHANGED <<now, locations, nextLoc, locCache, call, wd, al, nextWd, nextAl, canon_wd, canon_al,
                 lock, lastSync, marks, cwCache, got,
                 canon_fc>>

\* Mutant: a failed canonical write is swallowed and the loop goes on to the
\* UPDATE.
SyncSaveWeather_swallow(p) ==
  /\ pc[p] = "save_wd"
  /\ LET data == Head(todo[p]) IN
     IF SaveSucceeds(data)
     THEN /\ Len(canon_wd) < MaxCanon
          /\ canon_wd' = Append(canon_wd,
                [loc |-> data.loc, temperature |-> data.temperature,
                 timestamp |-> fromisoformat(data.timestamp),
                 src |-> data.id, by |-> arg[p]])
     ELSE UNCHANGED canon_wd
  /\ pc' = [pc EXCEPT ![p] = "mark_wd"]
  /\ UNCHANGED <<lock, marks, ret, todo, arg>>
  /\ UNCHANGED <<now, locations, nextLoc, locCache, call, wd, al, nextWd, nextAl, canon_al, lastSync,
                 cwCache, got,
                 canon_fc>>

\* offline_manager.py:113-121
SyncSaveWeather(p) ==
  /\ pc[p] = "save_wd"
  /\ LET data == Head(todo[p]) IN
     IF SaveSucceeds(data)
     THEN /\ Len(canon_wd) < MaxCanon
          /\ canon_wd' = Append(canon_wd,
                [loc |-> data.loc, temperature |-> data.temperature,
                 timestamp |-> fromisoformat(data.timestamp),
                 src |-> data.id, by |-> arg[p]])
          /\ pc' = [pc EXCEPT ![p] = "mark_wd"]
          /\ UNCHANGED <<lock, marks, ret, todo, arg>>
     ELSE /\ SyncFail(p, "save_failed", "weather_data")
          /\ UNCHANGED canon_wd
  /\ UNCHANGED <<now, locations, nextLoc, locCache, call, wd, al, nextWd, nextAl, canon_al, lastSync,
                 cwCache, got,
                 canon_fc>>

\* offline_manager.py:123-126.  The UPDATE opens the transaction and takes
\* the write lock; it stays uncommitted until line 150.
SyncMarkWeather(p) ==
  /\ pc[p] = "mark_wd"
  /\ lock \in {0, p}
  /\ lock' = p
  /\ marks' = [marks EXCEPT ![p].wd = @ \cup {Head(todo[p]).id}]
  /\ todo' = [todo EXCEPT ![p] = Tail(@)]
  /\ pc' = [pc EXCEPT ![p] = IF Tail(todo[p]) = <<>>
                             THEN "fetch_alerts" ELSE "save_wd"]
  /\ UNCHANGED <<now, locations, nextLoc, locCache, call, wd, al, nextWd, nextAl, canon_wd, canon_al,
                 lastSync, arg, ret, cwCache, got,
                 canon_fc>>

\* offline_manager.py:129-132
SyncFetchAlerts(p) ==
  /\ pc[p] = "fetch_alerts"
  /\ todo' = [todo EXCEPT ![p] = SelectPendingAlerts(arg[p])]
  /\ pc' = [pc EXCEPT ![p] = IF SelectPendingAlerts(arg[p]) = <<>>
                             THEN "commit" ELSE "save_al"]
  /\ UNCHANGED <<now, locations, nextLoc, locCache, call, wd, al, nextWd, nextAl, canon_wd, canon_al,
                 lock, lastSync, arg, marks, ret, cwCache, got,
                 canon_fc>>

\* A WeatherAlert row as INSERTed by save()/objects.create(): is_active
\* defaults to True, resolved_at to NULL, the two texts to ''.  src and by
\* name the local row and the pass a sync-written row came from (0: none).
NewAlert(loc, alert_type, severity, start_time, end_time, src, by) ==
  [loc |-> loc, alert_type |-> alert_type, severity |-> severity,
   start_time |-> start_time, end_time |-> end_time,
   is_active |-> TRUE, resolved_at |-> <<>>,
   resolution_notes |-> "", actual_impact |-> "", src |-> src, by |-> by]

\* offline_manager.py:134-143
SyncSaveAlert(p) ==
  /\ pc[p] = "save_al"
  /\ LET alert == Head(todo[p]) IN
     IF SaveSucceeds(alert)
     THEN /\ Len(canon_al) < MaxCanon
          /\ canon_al' = Append(canon_al,
                NewAlert(alert.loc, alert.alert_type, alert.severity,
                         fromisoformat(alert.start_time),
                         fromisoformat(alert.end_time), alert.id, arg[p]))
          /\ pc' = [pc EXCEPT ![p] = "mark_al"]
          /\ UNCHANGED <<lock, marks, ret, todo, arg>>
     ELSE /\ SyncFail(p, "save_failed", "alert")
          /\ UNCHANGED canon_al
  /\ UNCHANGED <<now, locations, nextLoc, locCache, call, wd, al, nextWd, nextAl, canon_wd, lastSync,
                 cwCache, got,
                 canon_fc>>

\* offline_manager.py:145-148
SyncMarkAlert(p) ==
  /\ pc[p] = "mark_al"
  /\ lock \in {0, p}
  /\ lock' = p
  /\ marks' = [marks EXCEPT ![p].al = @ \cup {Head(todo[p]).id}]
  /\ todo' = [todo EXCEPT ![p] = Tail(@)]
  /\ pc' = [pc EXCEPT ![p] = IF Tail(todo[p]) = <<>>
                             THEN "commit" ELSE "save_al"]
  /\ UNCHANGED <<now, locations, nextLoc, locCache, call, wd, al, nextWd, nextAl, canon_wd, canon_al,
                 lastSync, arg, ret, cwCache, got,
                 canon_fc>>

\* An UPDATE issued while another connection holds the write lock raises
\* sqlite3.OperationalError (database is locked) once the busy timeout ends.
SyncMarkLocked(p) ==
  /\ pc[p] \in {"mark_wd", "mark_al"}
  /\ lock \notin {0, p}
  /\ SyncFail(p, "locked", IF pc[p] = "mark_wd" THEN "weather_data" ELSE "alert")
  /\ UNCHANGED <<now, locations, nextLoc, locCache, call, wd, al, nextWd, nextAl, canon_wd, canon_al,
                 lastSync, cwCache, got,
                 canon_fc>>

\* Mutant: the UPDATEs of a pass are lost.
SetSynced_lost(table, ids) == table

\* UPDATE ... SET sync_status = 'synced' WHERE id = ?, once committed
SetSynced(table, ids) ==
  {IF r.id \in ids THEN [r EXCEPT !.sync_status = "synced"] ELSE r : r \in table}

\* offline_manager.py:150-161
SyncCommit(p) ==
  /\ pc[p] = "commit"
  /\ wd' = SetSynced(wd, marks[p].wd)
  /\ al' = SetSynced(al, marks[p].al)
  /\ lock' = IF lock = p THEN 0 ELSE lock
  /\ lastSync' = [L \in DOMAIN lastSync \cup {arg[p]} |->
                    IF L = arg[p] THEN now ELSE lastSync[L]]
  /\ ret' = [NoRet EXCEPT !.op = "sync", !.loc = arg[p], !.val = TRUE,
                          !.why = "completed"]
  /\ pc' = [pc EXCEPT ![p] = "idle"]
  /\ marks' = [marks EXCEPT ![p] = [wd |-> {}, al |-> {}]]
  /\ todo' = [todo EXCEPT ![p] = <<>>]
  /\ arg' = [arg EXCEPT ![p] = 0]
  /\ UNCHANGED <<now, locations, nextLoc, locCache, call, nextWd, nextAl, canon_wd, canon_al, cwCache, got,
                 canon_fc>>

\* ---------------------------------------------------- cleanup_old_data
\* Mutant: the DELETE lacks the sync_status condition.
CleanupDeletesWeather_anyStatus(r, cutoff_date) ==
  TextLess(r.timestamp, cutoff_date)

CleanupDeletesWeather(r, cutoff_date) ==
  TextLess(r.timestamp, cutoff_date) /\ r.sync_status = "synced"
CleanupDeletesAlert(r, cutoff_date) ==
  TextLess(r.end_time, cutoff_date) /\ r.sync_status = "synced"

\* offline_manager.py:284-311.  With the write lock held elsewhere the first
\* DELETE raises sqlite3.OperationalError, which is logged.
cleanup_old_data ==
  /\ LET cutoff_date == isoformat(now - RetentionMinutes) IN
     IF lock # 0
     THEN /\ ret' = [NoRet EXCEPT !.op = "cleanup", !.why = "locked"]
          /\ UNCHANGED <<wd, al>>
     ELSE /\ wd' = {r \in wd : ~CleanupDeletesWeather(r, cutoff_date)}
          /\ al' = {r \in al : ~CleanupDeletesAlert(r, cutoff_date)}
          /\ ret' = [NoRet EXCEPT !.op = "cleanup", !.val = TRUE]
  /\ UNCHANGED <<now, locations, nextLoc, locCache, call, nextWd, nextAl, canon_wd, canon_al, lock,
                 lastSync, pc, arg, todo, marks, cwCache, got,
                 canon_fc>>

\* ------------------------------------------------------ get_offline_data
GetSelectsWeather(data_type) == data_type = "weather_data"
GetSelectsAlerts(data_type) == data_type = "alerts"

\* offline_manager.py:226-282; start_date is <<>> for None, <<t>> for a
\* date.  A data_type matching neither branch executes no query, fetchall()
\* gives [] and the list comprehension never reads columns.
get_offline_data(location_id, data_type, start_date) ==
  IF GetSelectsWeather(data_type)
  THEN fetchall({r \in wd : r.loc = location_id /\
          (start_date = <<>> \/ TextGeq(r.timestamp, isoformat(start_date[1])))})
  ELSE IF GetSelectsAlerts(data_type)
  THEN fetchall({r \in al : r.loc = location_id /\
          (start_date = <<>> \/ TextGeq(r.start_time, isoformat(start_date[1])))})
  ELSE <<>>

\* ------------------------------------------------------------------ time
\* Expiry of the last-sync cache entries is applied as time passes.
TickHours(d) ==
  /\ \A p \in Procs : pc[p] = "idle"
  /\ now + d * 60 <= MaxHours * 60
  /\ now' = now + d * 60
  /\ lastSync' = [L \in {K \in DOMAIN lastSync : now' < lastSync[K] + SyncInterval}
                    |-> lastSync[L]]
  /\ UNCHANGED <<locations, nextLoc, locCache, call, wd, al, nextWd, nextAl, canon_wd, canon_al, lock,
                 pc, arg, todo, marks, ret, cwCache, got,
                 canon_fc>>

\* ------------------------------------------------------- specifications
\* Spec: one reconciliation caller, with capture and cleanup running beside it.
Next ==
  \/ \E L \in LocIds, kind \in Kinds : \E data \in Payloads(kind) :
       store_offline_data(L, kind, data)
  \/ \E L \in LocIds : SyncStart(1, L)
  \/ SyncSaveWeather(1)
  \/ SyncMarkWeather(1)
  \/ SyncFetchAlerts(1)
  \/ SyncSaveAlert(1)
  \/ SyncMarkAlert(1)
  \/ SyncCommit(1)
  \/ cleanup_old_data
  \/ \E d \in {SYNC_FREQUENCY - 1, SYNC_FREQUENCY} : TickHours(d)

Spec == Init /\ [][Next]_vars

\* SpecConc: two reconciliation callers interleaved; every stored row names
\* an existing location, so no canonical write fails.
NextConc ==
  \/ \E L \in InitLocations, kind \in {"weather_data", "alert"} :
       \E data \in Payloads(kind) : store_offline_data(L, kind, data)
  \/ \E p \in Procs, L \in InitLocations : SyncStart(p, L)
  \/ \E p \in Procs : SyncSaveWeather(p)
  \/ \E p \in Procs : SyncMarkWeather(p)
  \/ \E p \in Procs : SyncFetchAlerts(p)
  \/ \E p \in Procs : SyncSaveAlert(p)
  \/ \E p \in Procs : SyncMarkAlert(p)
  \/ \E p \in Procs : SyncMarkLocked(p)
  \/ \E p \in Procs : SyncCommit(p)

SpecConc == Init /\ [][NextConc]_vars

\* ------------------------------------------------- WeatherRepository
\* cache.get of current_weather_<L>; entries are set with CACHE_TIMEOUT.
CacheGetCurrentWeather(L) ==
  IF L \in DOMAIN cwCache /\ now < cwCache[L].expires
  THEN cwCache[L].obj ELSE None

\* .filter(location_id=..., timestamp__gte=cutoff_time)
RecentRows(location_id, cutoff_time) ==
  {i \in DOMAIN canon_wd : canon_wd[i].loc = location_id /\
                           canon_wd[i].timestamp >= cutoff_time}

\* Mutant: the rows are ordered by ascending timestamp.
FirstByTimestampDesc_ascending(ids) ==
  {i \in ids : \A j \in ids : canon_wd[i].timestamp <= canon_wd[j].timestamp}

\* .order_by('-timestamp').first(): a row of greatest timestamp; the
\* database picks among equal timestamps.
FirstByTimestampDesc(ids) ==
  {i \in ids : \A j \in ids : canon_wd[j].timestamp <= canon_wd[i].timestamp}

AsObject(i) == [id |-> i, loc |-> canon_wd[i].loc,
                temperature |-> canon_wd[i].temperature,
                timestamp |-> canon_wd[i].timestamp]

\* What the preceding get_current_weather call answered, if it was made for
\* the same location.
Before(location_id) ==
  IF got = None \/ got.loc # location_id THEN ""
  ELSE IF got.val = None THEN "none" ELSE "found"

Answer(location_id, val) ==
  [loc |-> location_id, at |-> now, val |-> val, before |-> Before(location_id)]

CacheSetCurrentWeather(location_id, obj) ==
  [L \in DOMAIN cwCache \cup {location_id} |->
     IF L = location_id THEN [obj |-> obj, expires |-> now + CacheTtl]
     ELSE cwCache[L]]

\* Mutant: the result is cached without the test "if weather_data".
current_weather_cachesNone(location_id) ==
  LET cached == CacheGetCurrentWeather(location_id)
      cutoff_time == now - RecencyWindow
      rows == RecentRows(location_id, cutoff_time)
  IN IF cached # None
     THEN /\ got' = Answer(location_id, cached)
          /\ UNCHANGED cwCache
     ELSE IF rows = {}
     THEN /\ got' = Answer(location_id, None)
          /\ cwCache' = CacheSetCurrentWeather(location_id, None)
     ELSE \E i \in FirstByTimestampDesc(rows) :
            /\ got' = Answer(location_id, AsObject(i))
            /\ cwCache' = CacheSetCurrentWeather(location_id, AsObject(i))

\* repositories.py:36-55: the answer and the cache after the call
current_weather(location_id) ==
  LET cached == CacheGetCurrentWeather(location_id)
      cutoff_time == now - RecencyWindow
      rows == RecentRows(location_id, cutoff_time)
  IN IF cached # None
     THEN /\ got' = Answer(location_id, cached)
          /\ UNCHANGED cwCache
     ELSE IF rows = {}
     THEN /\ got' = Answer(location_id, None)
          /\ UNCHANGED cwCache
     ELSE \E i \in FirstByTimestampDesc(rows) :
            /\ got' = Answer(location_id, AsObject(i))
            /\ cwCache' = CacheSetCurrentWeather(location_id, AsObject(i))

\* repositories.py:36-55, called on its own
get_current_weather(location_id) ==
  /\ current_weather(location_id)
  /\ UNCHANGED <<now, locations, nextLoc, locCache, call, wd, al, nextWd,
                 nextAl, canon_wd, canon_al, lock, lastSync, pc, arg, todo,
                 marks, ret, canon_fc>>

\* Readings inside the validation bounds.
ObservationPayloads ==
  [loc : LocIds, temperature : Temps,
   timestamp : {now, now - (RecencyWindow - 1), now - (RecencyWindow + 1)}]

\* dict.get(key, default)
Get(data, key, default) == IF key \in DOMAIN data THEN data[key] ELSE default

\* repositories.py:159-173.  The result is the message of the
\* WeatherDataError raised, "" when the function returns without raising.
_validate_weather_data(data) ==
  IF ~(MIN_TEMPERATURE <= Get(data, "temperature", 0) /\
       Get(data, "temperature", 0) <= MAX_TEMPERATURE)
  THEN "Temperature out of valid range"
  ELSE IF ~(MIN_HUMIDITY <= Get(data, "humidity", 0) /\
            Get(data, "humidity", 0) <= MAX_HUMIDITY)
  THEN "Humidity out of valid range"
  ELSE IF Get(data, "wind_speed", 0) > MAX_WIND_SPEED
  THEN "Wind speed out of valid range"
  ELSE IF Get(data, "rainfall", 0) > MAX_RAINFALL
  THEN "Rainfall out of valid range"
  ELSE ""

\* repositories.py:143-146.  objects.create() runs neither the field
\* validators nor WeatherData.clean(); the INSERT needs an existing Location.
create_weather_data(data) ==
  /\ data.loc \in locations
  /\ IF _validate_weather_data(data) # ""
     THEN /\ ret' = [NoRet EXCEPT !.op = "create_weather_data", !.loc = data.loc,
                                  !.kind = "WeatherDataError", !.val = FALSE,
                                  !.why = _validate_weather_data(data),
                                  !.row = data]
          /\ UNCHANGED canon_wd
     ELSE /\ Len(canon_wd) < MaxCanon
          /\ canon_wd' = Append(canon_wd,
                [loc |-> data.loc, temperature |-> data.temperature,
                 timestamp |-> data.timestamp, src |-> 0, by |-> 0])
          /\ ret' = [NoRet EXCEPT !.op = "create_weather_data", !.loc = data.loc,
                                  !.val = TRUE, !.row = data]
  /\ UNCHANGED <<now, locations, nextLoc, locCache, call, wd, al, nextWd, nextAl, canon_al, lock,
                 lastSync, pc, arg, todo, marks, cwCache, got,
                 canon_fc>>

\* Expired cache entries are dropped as time passes.
TickTo(limit) ==
  /\ now + 1 <= limit
  /\ now' = now + 1
  /\ cwCache' = [L \in {K \in DOMAIN cwCache : now' < cwCache[K].expires}
                   |-> cwCache[L]]
  /\ locCache' = [L \in {K \in DOMAIN locCache : now' < locCache[K].expires}
                    |-> locCache[L]]
  /\ UNCHANGED <<locations, nextLoc, call, wd, al, nextWd, nextAl, canon_wd, canon_al, lock,
                 lastSync, pc, arg, todo, marks, ret, got,
                 canon_fc>>

TickMinute == TickTo(MaxMinutes)

\* SpecRepo: the repository's reads and writes of observations.
NextRepo ==
  \/ \E data \in ObservationPayloads : create_weather_data(data)
  \/ \E L \in LocIds : get_current_weather(L)
  \/ TickMinute

SpecRepo == Init /\ [][NextRepo]_vars

\* ------------------------------------------------------------ locations
\* cache.get of location_<id>; entries are set with CACHE_TIMEOUT.
CacheGetLocation(location_id) ==
  IF location_id \in DOMAIN locCache /\ now < locCache[location_id].expires
  THEN locCache[location_id].obj ELSE None

\* Mutant: Location.DoesNotExist is swallowed and None is returned.
get_location_swallow(location_id) ==
  /\ LET location == CacheGetLocation(location_id) IN
     IF location # None
     THEN /\ ret' = [NoRet EXCEPT !.op = "get_location", !.loc = location_id,
                                  !.val = TRUE, !.row = location]
          /\ UNCHANGED locCache
     ELSE IF location_id \in locations
     THEN /\ ret' = [NoRet EXCEPT !.op = "get_location", !.loc = location_id,
                                  !.val = TRUE, !.row = [id |-> location_id]]
          /\ locCache' = [L \in DOMAIN locCache \cup {location_id} |->
                            IF L = location_id
                            THEN [obj |-> [id |-> location_id],
                                  expires |-> now + CacheTtl]
                            ELSE locCache[L]]
     ELSE /\ ret' = [NoRet EXCEPT !.op = "get_location", !.loc = location_id,
                                  !.val = FALSE]
          /\ UNCHANGED locCache
  /\ UNCHANGED <<now, locations, nextLoc, call, wd, al, nextWd, nextAl,
                 canon_wd, canon_al, lock, lastSync, pc, arg, todo, marks,
                 cwCache, got,
                 canon_fc>>

\* repositories.py:22-34.  A cached Location is returned without a look at
\* the canonical store; only a miss runs Location.objects.get, whose
\* DoesNotExist becomes InvalidLocationError.
get_location(location_id) ==
  /\ LET location == CacheGetLocation(location_id) IN
     IF location # None
     THEN /\ ret' = [NoRet EXCEPT !.op = "get_location", !.loc = location_id,
                                  !.val = TRUE, !.row = location]
          /\ UNCHANGED locCache
     ELSE IF location_id \in locations
     THEN /\ ret' = [NoRet EXCEPT !.op = "get_location", !.loc = location_id,
                                  !.val = TRUE, !.row = [id |-> location_id]]
          /\ locCache' = [L \in DOMAIN locCache \cup {location_id} |->
                            IF L = location_id
                            THEN [obj |-> [id |-> location_id],
                                  expires |-> now + CacheTtl]
                            ELSE locCache[L]]
     ELSE /\ ret' = [NoRet EXCEPT !.op = "get_location", !.loc = location_id,
                                  !.val = FALSE, !.why = "InvalidLocationError"]
          /\ UNCHANGED locCache
  /\ UNCHANGED <<now, locations, nextLoc, call, wd, al, nextWd, nextAl,
                 canon_wd, canon_al, lock, lastSync, pc, arg, todo, marks,
                 cwCache, got,
                 canon_fc>>

\* Location.objects.create: the key comes from the table's sequence and is
\* never handed out twice.
CreateLocation ==
  /\ nextLoc <= MaxLocs
  /\ locations' = locations \cup {nextLoc}
  /\ nextLoc' = nextLoc + 1
  /\ ret' = [NoRet EXCEPT !.op = "create_location", !.loc = nextLoc, !.val = TRUE]
  /\ UNCHANGED <<now, locCache, call, wd, al, nextWd, nextAl, canon_wd,
                 canon_al, lock, lastSync, pc, arg, todo, marks, cwCache, got,
                 canon_fc>>

OfOtherLocation(row, location_id) == row.loc # location_id

\* Location.delete(): observations, alerts and forecasts of the location go
\* with it (on_delete=CASCADE); no cache entry is invalidated.
DeleteLocation(location_id) ==
  /\ location_id \in locations
  /\ locations' = locations \ {location_id}
  /\ canon_wd' = SelectSeq(canon_wd, LAMBDA r : OfOtherLocation(r, location_id))
  /\ canon_al' = SelectSeq(canon_al, LAMBDA r : OfOtherLocation(r, location_id))
  /\ ret' = [NoRet EXCEPT !.op = "delete_location", !.loc = location_id,
                          !.val = TRUE]
  /\ canon_fc' = SelectSeq(canon_fc, LAMBDA r : OfOtherLocation(r, location_id))
  /\ UNCHANGED <<now, nextLoc, locCache, call, wd, al, nextWd, nextAl, lock,
                 lastSync, pc, arg, todo, marks, cwCache, got>>

\* SpecLoc: locations come and go while get_location is called.
NextLoc ==
  \/ CreateLocation
  \/ \E L \in 1..MaxLocs : DeleteLocation(L)
  \/ \E L \in 1..MaxLocs : get_location(L)
  \/ TickMinute

SpecLoc == Init /\ [][NextLoc]_vars

\* --------------------------------------------------------------- alerts
\* severity is a CharField: the database orders it as text.  A text is
\* modelled by the alphabet positions of its letters.
SeverityText ==
  [LOW |-> <<12, 15, 23>>, MEDIUM |-> <<13, 5, 4, 9, 21, 13>>,
   HIGH |-> <<8, 9, 7, 8>>, EXTREME |-> <<5, 24, 20, 18, 5, 13, 5>>]

RECURSIVE VarcharLess(_, _)
VarcharLess(a, b) ==
  IF a = <<>> THEN b # <<>>
  ELSE IF b = <<>> THEN FALSE
  ELSE IF a[1] # b[1] THEN a[1] < b[1]
  ELSE VarcharLess(Tail(a), Tail(b))

\* Payloads of create_weather_alert with start_time < end_time; the alerts
\* end with the last minute of the alert clock.
AlertCreatePayloads ==
  [loc : InitLocations, alert_type : AlertTypes, severity : Severities,
   start_time : {0 - 2, 0 - 1}, end_time : {MaxAlertClock}]

\* repositories.py:148-157.  objects.create() does not call
\* WeatherAlert.clean(); the INSERT needs an existing Location.
create_weather_alert(data) ==
  /\ data.loc \in locations
  /\ Len(canon_al) < MaxCanon
  /\ canon_al' = Append(canon_al,
        NewAlert(data.loc, data.alert_type, data.severity, data.start_time,
                 data.end_time, 0, 0))
  /\ ret' = [NoRet EXCEPT !.op = "create_weather_alert", !.loc = data.loc,
                          !.val = TRUE, !.row = data]
  /\ UNCHANGED <<now, locations, nextLoc, locCache, call, wd, al, nextWd,
                 nextAl, canon_wd, lock, lastSync, pc, arg, todo, marks,
                 cwCache, got,
                 canon_fc>>

\* Mutant: the filter lacks is_active=True.
ActiveAlertIds_anyFlag(location_id) ==
  {i \in DOMAIN canon_al : /\ canon_al[i].loc = location_id
                            /\ canon_al[i].end_time > now}

\* Q(location_id=location_id, is_active=True, end_time__gt=timezone.now())
ActiveAlertIds(location_id) ==
  {i \in DOMAIN canon_al : /\ canon_al[i].loc = location_id
                            /\ canon_al[i].is_active
                            /\ canon_al[i].end_time > now}

\* .order_by('-severity', '-start_time'): row i sorts strictly before row j
SortsBefore(i, j) ==
  \/ VarcharLess(SeverityText[canon_al[j].severity],
                 SeverityText[canon_al[i].severity])
  \/ /\ canon_al[i].severity = canon_al[j].severity
     /\ canon_al[i].start_time > canon_al[j].start_time

\* the orders the database may return the rows in
OrderBy(ids) ==
  {q \in [1..Cardinality(ids) -> ids] :
     /\ \A k, l \in DOMAIN q : k # l => q[k] # q[l]
     /\ \A k, l \in DOMAIN q : k < l => ~SortsBefore(q[l], q[k])}

AlertObject(i) ==
  [id |-> i, loc |-> canon_al[i].loc, severity |-> canon_al[i].severity,
   start_time |-> canon_al[i].start_time, end_time |-> canon_al[i].end_time,
   is_active |-> canon_al[i].is_active]

\* repositories.py:82-103, evaluated at once, without a crop filter
get_active_alerts(location_id) ==
  /\ \E q \in OrderBy(ActiveAlertIds(location_id)) :
       ret' = [NoRet EXCEPT !.op = "get_active_alerts", !.loc = location_id,
                            !.val = TRUE,
                            !.rest = [k \in DOMAIN q |-> AlertObject(q[k])]]
  /\ UNCHANGED <<now, locations, nextLoc, locCache, call, wd, al, nextWd,
                 nextAl, canon_wd, canon_al, lock, lastSync, pc, arg, todo,
                 marks, cwCache, got,
                 canon_fc>>

\* resolved_at is <<>> for NULL, <<t>> for a time.
Resolved(alert) == ~alert.is_active /\ alert.resolved_at # <<>>

\* models.py:394-400, on a freshly loaded alert
resolve(i, notes, impact) ==
  /\ i \in DOMAIN canon_al
  /\ canon_al' = [canon_al EXCEPT ![i] =
        [@ EXCEPT !.is_active = FALSE, !.resolved_at = <<now>>,
                  !.resolution_notes = notes, !.actual_impact = impact]]
  /\ ret' = [NoRet EXCEPT !.op = "resolve", !.loc = canon_al[i].loc,
                          !.val = TRUE, !.row = [id |-> i]]
  /\ UNCHANGED <<now, locations, nextLoc, locCache, call, wd, al, nextWd,
                 nextAl, canon_wd, lock, lastSync, pc, arg, todo, marks,
                 cwCache, got,
                 canon_fc>>

\* views.py:273-290.  get_object() looks the alert up in get_queryset()
\* (views.py:213-234), which keeps is_active=True only: a resolved alert
\* gives Http404.
view_resolve(pk, resolution_notes, actual_impact) ==
  /\ pk \in DOMAIN canon_al
  /\ IF canon_al[pk].is_active
     THEN /\ canon_al' = [canon_al EXCEPT ![pk] =
                [@ EXCEPT !.is_active = FALSE, !.resolved_at = <<now>>,
                          !.resolution_notes = resolution_notes,
                          !.actual_impact = actual_impact]]
          /\ ret' = [NoRet EXCEPT !.op = "view_resolve", !.loc = canon_al[pk].loc,
                                  !.val = TRUE, !.row = [id |-> pk]]
     ELSE /\ ret' = [NoRet EXCEPT !.op = "view_resolve", !.loc = canon_al[pk].loc,
                                  !.val = FALSE, !.why = "Http404",
                                  !.row = [id |-> pk]]
          /\ UNCHANGED canon_al
  /\ UNCHANGED <<now, locations, nextLoc, locCache, call, wd, al, nextWd,
                 nextAl, canon_wd, lock, lastSync, pc, arg, todo, marks,
                 cwCache, got,
                 canon_fc>>

ResolutionNotes == {"Alert handled successfully"}
ActualImpacts == {"Minimal crop damage"}

\* SpecAlert: alerts are raised, listed and resolved as the clock advances.
NextAlert ==
  \/ \E data \in AlertCreatePayloads : create_weather_alert(data)
  \/ \E L \in InitLocations : get_active_alerts(L)
  \/ \E i \in 1..MaxCanon, notes \in ResolutionNotes, impact \in ActualImpacts :
       resolve(i, notes, impact)
  \/ \E i \in 1..MaxCanon, notes \in ResolutionNotes, impact \in ActualImpacts :
       view_resolve(i, notes, impact)
  \/ TickTo(MaxAlertClock)

SpecAlert == Init /\ [][NextAlert]_vars

\* --------------------------------------------------------------- ingest
\* What a caller may hand to the write paths: nothing checks a payload
\* before store_offline_data or create_weather_alert take it.
IngestWeatherPayloads ==
  [temperature : Temps \cup {MAX_TEMPERATURE + 1}, timestamp : {now, now + 1}]
AlertRanges ==
  {<<now, now + AlertDuration>>, <<now, now>>, <<now + AlertDuration, now>>}
IngestAlertPayloads ==
  {[alert_type |-> t, severity |-> "HIGH", start_time |-> r[1],
    end_time |-> r[2]] : t \in AlertTypes, r \in AlertRanges}
IngestPayloads(kind) == IF kind = "weather_data" THEN IngestWeatherPayloads
                        ELSE IngestAlertPayloads
ReadingPayloads ==
  [loc : InitLocations, temperature : Temps \cup {MAX_TEMPERATURE + 1},
   timestamp : {now, now + 1}]
AlertAnyRangePayloads ==
  {[loc |-> L, alert_type |-> t, severity |-> "HIGH", start_time |-> r[1],
    end_time |-> r[2]] : L \in InitLocations, t \in AlertTypes, r \in AlertRanges}

\* SpecIngest: the two ways into the canonical store, the repository's
\* create_* calls and the offline queue drained by one sync caller.
NextIngest ==
  \/ \E L \in InitLocations, kind \in {"weather_data", "alert"} :
       \E data \in IngestPayloads(kind) : store_offline_data(L, kind, data)
  \/ \E L \in InitLocations : SyncStart(1, L)
  \/ SyncSaveWeather(1)
  \/ SyncMarkWeather(1)
  \/ SyncFetchAlerts(1)
  \/ SyncSaveAlert(1)
  \/ SyncMarkAlert(1)
  \/ SyncCommit(1)
  \/ \E data \in ReadingPayloads : create_weather_data(data)
  \/ \E data \in AlertAnyRangePayloads : create_weather_alert(data)

SpecIngest == Init /\ [][NextIngest]_vars

\* Readings around every bound _validate_weather_data knows.
BoundedFieldPayloads ==
  [loc : InitLocations,
   temperature : {MIN_TEMPERATURE - 1, MIN_TEMPERATURE, MAX_TEMPERATURE,
                  MAX_TEMPERATURE + 1},
   humidity : {MIN_HUMIDITY - 1, MIN_HUMIDITY, MAX_HUMIDITY, MAX_HUMIDITY + 1},
   rainfall : {0 - 1, 0, MAX_RAINFALL, MAX_RAINFALL + 1},
   wind_speed : {0 - 1, 0, MAX_WIND_SPEED, MAX_WIND_SPEED + 1},
   timestamp : {now}]

\* SpecCreate: create_weather_data called with readings at and beyond the
\* bounds.
NextCreate ==
  \E data \in BoundedFieldPayloads : create_weather_data(data)

SpecCreate == Init /\ [][NextCreate]_vars

\* ----------------------------------------------------------- translator
\* The texts of config.WEATHER_CONDITIONS and of the WeatherTranslator
\* tables.  A Devanagari text is written letter by letter with the names of
\* its characters, so that two texts are equal here exactly when they are
\* equal in the source.
WEATHER_CONDITIONS ==
  [
   CLEAR |-> [en |-> "Clear",
         hi |-> "sa.aa.pha.nukta",
         hr |-> "sa.aa.pha"],
   PARTLY_CLOUDY |-> [en |-> "Partly Cloudy",
         hi |-> "aa.anusvara.sha.i.ka ra.uu.pa sa.e ba.aa.da.la",
         hr |-> "tha.o.dda.nukta.e ba.aa.da.la"],
   CLOUDY |-> [en |-> "Cloudy",
         hi |-> "ba.aa.da.la",
         hr |-> "ba.aa.da.la"],
   RAIN |-> [en |-> "Rain",
         hi |-> "ba.aa.ra.i.sha",
         hr |-> "ba.ra.kha.aa"],
   THUNDERSTORM |-> [en |-> "Thunderstorm",
         hi |-> "aa.anusvara.dha.ii",
         hr |-> "aa.anusvara.dha.ii"],
   FOG |-> [en |-> "Fog",
         hi |-> "ka.o.ha.ra.aa",
         hr |-> "ka.u.ha.ra.aa"],
   HAZE |-> [en |-> "Haze",
         hi |-> "dha.u.anusvara.dha",
         hr |-> "dha.u.anusvara.dha"]]

TEMPERATURE_RANGES ==
  [
   VERY_COLD |-> [en |-> "Very Cold",
         hi |-> "ba.ha.u.ta ttha.anusvara.dda.aa",
         hr |-> "ba.ha.u.ta ttha.anusvara.dda.aa"],
   COLD |-> [en |-> "Cold",
         hi |-> "ttha.anusvara.dda.aa",
         hr |-> "ttha.anusvara.dda.aa"],
   MODERATE |-> [en |-> "Moderate",
         hi |-> "sa.aa.ma.aa.na.virama.ya",
         hr |-> "ttha.ii.ka"],
   WARM |-> [en |-> "Warm",
         hi |-> "ga.ra.ma",
         hr |-> "ga.ra.ma"],
   HOT |-> [en |-> "Hot",
         hi |-> "ba.ha.u.ta ga.ra.ma",
         hr |-> "ta.pa.ta"]]

SOIL_CONDITIONS ==
  [
   DRY |-> [en |-> "Dry soil - irrigation needed",
         hi |-> "sa.uu.kha.ii ma.i.tta.virama.tta.ii - sa.i.anusvara.ca.aa.ii ka.ii aa.va.sha.virama.ya.ka.ta.aa ha.ai",
         hr |-> "sa.uu.kha.ii ma.aa.tta.ii - pa.aa.na.ii ka.ii ja.ra.uu.ra.ta ha.ai"],
   MOIST |-> [en |-> "Good soil moisture",
         hi |-> "a.ca.virama.cha.ii na.ma.ii",
         hr |-> "ba.ddha.nukta.i.ya.aa na.ma.ii"],
   WET |-> [en |-> "Wet soil - avoid irrigation",
         hi |-> "ga.ii.la.ii ma.i.tta.virama.tta.ii - sa.i.anusvara.ca.aa.ii na ka.ra.e.anusvara",
         hr |-> "ga.ii.la.ii ma.aa.tta.ii - pa.aa.na.ii na.aa da.e.anusvara"]]

ALERT_TYPES ==
  [
   FROST |-> [en |-> "Frost Warning",
         hi |-> "pa.aa.la.aa ca.e.ta.aa.va.na.ii",
         hr |-> "pa.aa.la.aa ka.ii ca.e.ta.aa.va.na.ii"],
   HEATWAVE |-> [en |-> "Heat Wave Warning",
         hi |-> "la.uu ka.ii ca.e.ta.aa.va.na.ii",
         hr |-> "la.uu ka.ii ca.e.ta.aa.va.na.ii"],
   HEAVY_RAIN |-> [en |-> "Heavy Rain Warning",
         hi |-> "bha.aa.ra.ii ba.aa.ra.i.sha ka.ii ca.e.ta.aa.va.na.ii",
         hr |-> "ta.e.ja ba.ra.kha.aa ka.ii ca.e.ta.aa.va.na.ii"],
   PEST_RISK |-> [en |-> "High Pest Risk",
         hi |-> "ka.ii.tta ka.aa kha.ta.ra.aa",
         hr |-> "ka.ii.dda.nukta.e ka.aa kha.ta.ra.aa"],
   DISEASE_RISK |-> [en |-> "Disease Risk",
         hi |-> "ba.ii.ma.aa.ra.ii ka.aa kha.ta.ra.aa",
         hr |-> "ba.ii.ma.aa.ra.ii ka.aa kha.ta.ra.aa"]]

FARMING_ACTIONS ==
  [
   IRRIGATE |-> [en |-> "Irrigation needed",
         hi |-> "sa.i.anusvara.ca.aa.ii ka.ra.e.anusvara",
         hr |-> "pa.aa.na.ii da.e.na.aa ja.ra.uu.ra.ii ha.ai"],
   SPRAY |-> [en |-> "Suitable for spraying",
         hi |-> "cha.i.dda.nukta.ka.aa.va ka.e la.i.e u.pa.ya.u.ka.virama.ta",
         hr |-> "da.va.aa.ii dda.aa.la.na.e ka.aa tta.ai.ma ha.ai"],
   PROTECT |-> [en |-> "Protect crops",
         hi |-> "pha.sa.la ka.ii ra.ka.virama.ssa.aa ka.ra.e.anusvara",
         hr |-> "pha.sa.la ka.ii ra.kha.va.aa.la.ii ka.ra.e.anusvara"],
   HARVEST |-> [en |-> "Good for harvesting",
         hi |-> "ka.tta.aa.ii ka.e la.i.e u.pa.ya.u.ka.virama.ta",
         hr |-> "ka.tta.aa.ii ka.aa ba.ddha.nukta.i.ya.aa tta.ai.ma ha.ai"]]

\* language_utils.py:115-124; "" stands for None and the empty string.
WeatherTranslator(preferred_language) ==
  LET language == IF preferred_language # "" THEN preferred_language
                  ELSE DEFAULT_LANGUAGE
  IN IF language \notin LANGUAGES THEN "en" ELSE language

\* table[key][language], with KeyError turned into the key itself
Lookup(table, key, language) ==
  IF key \in DOMAIN table /\ language \in DOMAIN table[key]
  THEN table[key][language] ELSE key

\* language_utils.py:126-131
get_weather_condition(language, condition) ==
  Lookup(WEATHER_CONDITIONS, condition, language)

\* language_utils.py:133-146
get_temperature_description(language, temperature) ==
  LET range_key == IF temperature <= 5 THEN "VERY_COLD"
                   ELSE IF temperature <= 15 THEN "COLD"
                   ELSE IF temperature <= 25 THEN "MODERATE"
                   ELSE IF temperature <= 35 THEN "WARM"
                   ELSE "HOT"
  IN TEMPERATURE_RANGES[range_key][language]

\* language_utils.py:148-157
get_soil_condition(language, moisture_percentage) ==
  LET condition == IF moisture_percentage < 30 THEN "DRY"
                   ELSE IF moisture_percentage > 70 THEN "WET"
                   ELSE "MOIST"
  IN SOIL_CONDITIONS[condition][language]

\* language_utils.py:159-164
get_alert_type(language, alert_type) ==
  Lookup(ALERT_TYPES, alert_type, language)

\* language_utils.py:166-171
get_farming_action(language, action) ==
  Lookup(FARMING_ACTIONS, action, language)

PreferredLanguages == LANGUAGES \cup {"fr", ""}
ConditionKeys == DOMAIN WEATHER_CONDITIONS \cup {"SNOW"}
AlertTypeKeys == DOMAIN ALERT_TYPES \cup {"HAIL"}
FarmingActionKeys == DOMAIN FARMING_ACTIONS \cup {"PLOUGH"}
TemperatureValues == {0 - 5, 5, 6, 15, 16, 25, 26, 35, 36, 45}
MoistureValues == {0, 29, 30, 31, 70, 71, 100}

\* One method of the translator, by name, on a text key or a number.
Translate(language, fn, key, value) ==
  IF fn = "get_weather_condition" THEN get_weather_condition(language, key)
  ELSE IF fn = "get_alert_type" THEN get_alert_type(language, key)
  ELSE IF fn = "get_farming_action" THEN get_farming_action(language, key)
  ELSE IF fn = "get_temperature_description"
  THEN get_temperature_description(language, value)
  ELSE get_soil_condition(language, value)

TranslateKey(fn, key) ==
  /\ call' = [call EXCEPT !.fn = fn, !.key = key, !.value = 0,
                          !.out = Translate(call.language, fn, key, 0)]
  /\ UNCHANGED <<now, locations, nextLoc, locCache, wd, al, nextWd, nextAl,
                 canon_wd, canon_al, lock, lastSync, pc, arg, todo, marks,
                 ret, cwCache, got,
                 canon_fc>>

TranslateValue(fn, value) ==
  /\ call' = [call EXCEPT !.fn = fn, !.key = "", !.value = value,
                          !.out = Translate(call.language, fn, "", value)]
  /\ UNCHANGED <<now, locations, nextLoc, locCache, wd, al, nextWd, nextAl,
                 canon_wd, canon_al, lock, lastSync, pc, arg, todo, marks,
                 ret, cwCache, got,
                 canon_fc>>

\* SpecTranslate: a translator is constructed with some language code and
\* its methods are called.
InitTranslate ==
  /\ InitStores
  /\ call \in {[preferred |-> p, language |-> WeatherTranslator(p), fn |-> "",
                 key |-> "", value |-> 0, out |-> ""] : p \in PreferredLanguages}

NextTranslate ==
  \/ \E c \in ConditionKeys : TranslateKey("get_weather_condition", c)
  \/ \E a \in AlertTypeKeys : TranslateKey("get_alert_type", a)
  \/ \E a \in FarmingActionKeys : TranslateKey("get_farming_action", a)
  \/ \E t \in TemperatureValues : TranslateValue("get_temperature_description", t)
  \/ \E m \in MoistureValues : TranslateValue("get_soil_condition", m)

SpecTranslate == InitTranslate /\ [][NextTranslate]_vars

\* ------------------------------------------------------ crop suitability
\* Python truth value of an optional number: <<>> is None, <<v>> the number v.
Truthy(x) == x # <<>> /\ x[1] # 0

\* services.py:123-140
_analyze_risk_factors(weather, crop) ==
  (IF weather.temperature <= crop.min_temp
   THEN <<"Cold stress risk">> ELSE <<>>)
  \o (IF weather.temperature >= crop.max_temp
      THEN <<"Heat stress risk">> ELSE <<>>)
  \o (IF weather.humidity >= HIGH_HUMIDITY
      THEN <<"Disease risk due to high humidity">> ELSE <<>>)
  \o (IF Truthy(weather.soil_moisture) /\
         weather.soil_moisture[1] < crop.min_soil_moisture
      THEN <<"Drought stress risk">> ELSE <<>>)

\* services.py:33-51.  `a and b` gives a when a is falsy: None or 0.
verdict(weather_data, crop) ==
  [temperature_suitable |->
     (crop.min_temp <= weather_data.temperature /\
      weather_data.temperature <= crop.max_temp),
   humidity_suitable |->
     (crop.min_humidity <= weather_data.humidity /\
      weather_data.humidity <= crop.max_humidity),
   soil_moisture_suitable |->
     IF Truthy(weather_data.soil_moisture)
     THEN <<crop.min_soil_moisture <= weather_data.soil_moisture[1] /\
            weather_data.soil_moisture[1] <= crop.max_soil_moisture>>
     ELSE weather_data.soil_moisture,
   risk_factors |-> _analyze_risk_factors(weather_data, crop)]

assess_crop_suitability ==
  /\ call.fn = ""
  /\ call' = [call EXCEPT !.fn = "assess_crop_suitability",
                          !.out = verdict(call.weather_data, call.crop)]
  /\ UNCHANGED <<now, locations, nextLoc, locCache, wd, al, nextWd, nextAl,
                 canon_wd, canon_al, lock, lastSync, pc, arg, todo, marks,
                 ret, cwCache, got,
                 canon_fc>>

TestCrop == [min_temp |-> 20, max_temp |-> 30, min_humidity |-> 50,
             max_humidity |-> 80, min_soil_moisture |-> 30,
             max_soil_moisture |-> 70]
Readings ==
  [temperature : {TestCrop.min_temp - 1, TestCrop.min_temp, 25,
                  TestCrop.max_temp, TestCrop.max_temp + 1},
   humidity : {HIGH_HUMIDITY - 1, HIGH_HUMIDITY, HIGH_HUMIDITY + 1},
   soil_moisture : {<<>>, <<0>>, <<TestCrop.min_soil_moisture - 1>>,
                    <<TestCrop.min_soil_moisture>>}]

\* SpecRisk: a reading is assessed against a crop.
InitRisk ==
  /\ InitStores
  /\ call \in {[weather_data |-> w, crop |-> TestCrop, fn |-> "", out |-> None] :
                 w \in Readings}

NextRisk == assess_crop_suitability

SpecRisk == InitRisk /\ [][NextRisk]_vars

\* ------------------------------------------------- agricultural metrics
\* An exception that leaves a function is the record [raised |-> its class].
Raised(kind) == [raised |-> kind]
IsRaised(x) == "raised" \in DOMAIN x

\* repositories.py:57-80: the observations of the trailing days; the model
\* keeps the rows the per-date aggregates are computed from.
get_weather_history(location_id, days) ==
  {i \in DOMAIN canon_wd : /\ canon_wd[i].loc = location_id
                            /\ canon_wd[i].timestamp >= now - days * 24 * 60}

\* services.py:97-110: the attributes of weather are read without a test
\* for None.
_analyze_current_conditions(weather) ==
  IF weather = None THEN Raised("AttributeError")
  ELSE [frost_risk |-> weather.temperature <= LOW_TEMPERATURE,
        heat_stress_risk |-> weather.temperature >= HIGH_TEMPERATURE]

\* services.py:112-121: the third entry calls
\* self._analyze_soil_moisture_trends, which WeatherAnalysisService does not
\* define.
_analyze_historical_data(weather_data) ==
  IF weather_data = {} THEN [days |-> 0] ELSE Raised("AttributeError")

\* services.py:205-237
_generate_agricultural_alerts(current, historical) ==
  (IF current.temperature <= LOW_TEMPERATURE THEN <<"frost_risk">> ELSE <<>>)
  \o (IF current.temperature >= HIGH_TEMPERATURE THEN <<"heat_stress">> ELSE <<>>)

\* services.py:53-72.  kind is the class of the exception raised, "result"
\* when the metrics are returned.
get_agricultural_metrics(location_id, days) ==
  /\ LET weather_data == get_weather_history(location_id, days)
     IN IF weather_data = {}
        THEN /\ ret' = [NoRet EXCEPT !.op = "get_agricultural_metrics",
                                     !.loc = location_id,
                                     !.kind = "WeatherDataError",
                                     !.why = "No weather data available"]
             /\ UNCHANGED <<cwCache, got>>
        ELSE /\ current_weather(location_id)
             /\ LET current == got'.val
                    conditions == _analyze_current_conditions(current)
                    analysis == _analyze_historical_data(weather_data)
                IN ret' =
                     IF IsRaised(conditions)
                     THEN [NoRet EXCEPT !.op = "get_agricultural_metrics",
                                        !.loc = location_id,
                                        !.kind = conditions.raised,
                                        !.why = "weather.temperature"]
                     ELSE IF IsRaised(analysis)
                     THEN [NoRet EXCEPT !.op = "get_agricultural_metrics",
                                        !.loc = location_id,
                                        !.kind = analysis.raised,
                                        !.why = "_analyze_soil_moisture_trends"]
                     ELSE [NoRet EXCEPT !.op = "get_agricultural_metrics",
                                        !.loc = location_id,
                                        !.kind = "result", !.val = TRUE,
                                        !.row =
                                          [current_conditions |-> conditions,
                                           historical_analysis |-> analysis,
                                           agricultural_alerts |->
                                             _generate_agricultural_alerts(
                                               current, weather_data)]]
  /\ UNCHANGED <<now, locations, nextLoc, locCache, call, wd, al, nextWd,
                 nextAl, canon_wd, canon_al, lock, lastSync, pc, arg, todo,
                 marks, canon_fc>>

\* days: the default of get_agricultural_metrics, and none
MetricsDays == {7, 0}

\* SpecMetrics: observations are written and metrics requested.
NextMetrics ==
  \/ \E data \in ObservationPayloads : create_weather_data(data)
  \/ \E L \in LocIds, days \in MetricsDays : get_agricultural_metrics(L, days)
  \/ TickMinute

SpecMetrics == Init /\ [][NextMetrics]_vars

\* ------------------------------------------------------------- forecasts
Day == 24 * 60

\* timezone.now().date(), counted in days
today == now \div Day

\* Forecasts for today and for the day after the longest span, which the
\* next day brings inside it.
ForecastPayloads ==
  [loc : LocIds, forecast_date : {today, today + MAX_FORECAST_DAYS}]

\* views.py:126-128 (ModelViewSet.create): nothing limits the forecasts of a
\* location and date; the INSERT needs an existing Location.
WeatherForecast_create(data) ==
  /\ data.loc \in locations
  /\ Len(canon_fc) < MaxForecasts
  /\ canon_fc' = Append(canon_fc, data)
  /\ ret' = [NoRet EXCEPT !.op = "create_forecast", !.loc = data.loc,
                          !.val = TRUE, !.row = data]
  /\ UNCHANGED <<now, locations, nextLoc, locCache, call, wd, al, nextWd,
                 nextAl, canon_wd, canon_al, lock, lastSync, pc, arg, todo,
                 marks, cwCache, got>>

\* Mutant: the requested span is used as it is.
ForecastSpan_unclamped(days) == days

\* repositories.py:111-112
ForecastSpan(days) ==
  IF days > MAX_FORECAST_DAYS THEN MAX_FORECAST_DAYS ELSE days

\* .filter(location_id=..., forecast_date__gte=today,
\*         forecast_date__lt=today + timedelta(days=days))
ForecastIds(location_id, days) ==
  {i \in DOMAIN canon_fc : /\ canon_fc[i].loc = location_id
                            /\ canon_fc[i].forecast_date >= today
                            /\ canon_fc[i].forecast_date < today + days}

\* .order_by('forecast_date'): the orders the database may return the rows
\* in; it picks among equal dates.
OrderByForecastDate(ids) ==
  {q \in [1..Cardinality(ids) -> ids] :
     /\ \A k, l \in DOMAIN q : k # l => q[k] # q[l]
     /\ \A k, l \in DOMAIN q :
          k < l => canon_fc[q[k]].forecast_date <= canon_fc[q[l]].forecast_date}

ForecastObject(i) ==
  [id |-> i, loc |-> canon_fc[i].loc,
   forecast_date |-> canon_fc[i].forecast_date]

\* repositories.py:105-124, evaluated at once
get_weather_forecast(location_id, days) ==
  /\ \E q \in OrderByForecastDate(ForecastIds(location_id, ForecastSpan(days))) :
       ret' = [NoRet EXCEPT !.op = "get_weather_forecast", !.loc = location_id,
                            !.val = TRUE,
                            !.row = [days |-> days, today |-> today],
                            !.rest = [k \in DOMAIN q |-> ForecastObject(q[k])]]
  /\ UNCHANGED <<now, locations, nextLoc, locCache, call, wd, al, nextWd,
                 nextAl, canon_wd, canon_al, lock, lastSync, pc, arg, todo,
                 marks, cwCache, got, canon_fc>>

\* Requested spans: none, one day, the longest, and one above it.
ForecastRequests == {0, 1, MAX_FORECAST_DAYS, MAX_FORECAST_DAYS + 1}

\* A day passes; cache entries that expire meanwhile are dropped.
TickDay ==
  /\ \A p \in Procs : pc[p] = "idle"
  /\ now + Day <= MaxDays * Day
  /\ now' = now + Day
  /\ cwCache' = [L \in {K \in DOMAIN cwCache : now' < cwCache[K].expires}
                   |-> cwCache[L]]
  /\ locCache' = [L \in {K \in DOMAIN locCache : now' < locCache[K].expires}
                    |-> locCache[L]]
  /\ lastSync' = [L \in {K \in DOMAIN lastSync : now' < lastSync[K] + SyncInterval}
                    |-> lastSync[L]]
  /\ UNCHANGED <<locations, nextLoc, call, wd, al, nextWd, nextAl, canon_wd,
                 canon_al, lock, pc, arg, todo, marks, ret, got, canon_fc>>

\* SpecForecast: forecasts are published for two locations and read back.
NextForecast ==
  \/ CreateLocation
  \/ \E data \in ForecastPayloads : WeatherForecast_create(data)
  \/ \E L \in LocIds, days \in ForecastRequests : get_weather_forecast(L, days)
  \/ TickDay

SpecForecast == Init /\ [][NextForecast]_vars

\* ------------------------------------------------------------------ trend
RECURSIVE Sum(_)
Sum(s) == IF s = <<>> THEN 0 ELSE s[1] + Sum(Tail(s))

Abs(x) == IF x < 0 THEN 0 - x ELSE x

\* The values of a series are counted in tenths: 1 stands for 0.1.
TrendThreshold == 1

\* values[:len(values)//2] and values[len(values)//2:]
FirstHalf(values) == SubSeq(values, 1, Len(values) \div 2)
SecondHalf(values) == SubSeq(values, Len(values) \div 2 + 1, Len(values))

\* second_half - first_half, multiplied by the lengths of both halves
ScaledDiff(values) ==
  Sum(SecondHalf(values)) * Len(FirstHalf(values))
    - Sum(FirstHalf(values)) * Len(SecondHalf(values))

\* services.py:192-203
_calculate_trend(values) ==
  IF Len(values) < 2 THEN "stable"
  ELSE LET scale == Len(FirstHalf(values)) * Len(SecondHalf(values))
       IN IF Abs(ScaledDiff(values)) < TrendThreshold * scale THEN "stable"
          ELSE IF ScaledDiff(values) > 0 THEN "increasing"
          ELSE "decreasing"

calculate_trend ==
  /\ call.fn = ""
  /\ call' = [call EXCEPT !.fn = "_calculate_trend",
                          !.out = _calculate_trend(call.values)]
  /\ UNCHANGED <<now, locations, nextLoc, locCache, wd, al, nextWd, nextAl,
                 canon_wd, canon_al, lock, lastSync, pc, arg, todo, marks,
                 ret, cwCache, got, canon_fc>>

\* Daily series of up to MaxSeries values between 0.0 and 0.3.
SeriesValues == {0, 1, 2, 3}
Series == UNION {[1..n -> SeriesValues] : n \in 0..MaxSeries}

\* SpecTrend: the trend of a series is computed.
InitTrend ==
  /\ InitStores
  /\ call \in {[values |-> v, fn |-> "", out |-> ""] : v \in Series}

NextTrend == calculate_trend

SpecTrend == InitTrend /\ [][NextTrend]_vars

\* ------------------------------------------------------ soil moisture bands
\* Mutant: the lower boundary belongs to the dry band.
_assess_soil_moisture_inclusive(moisture) ==
  IF moisture = <<>> THEN "unknown"
  ELSE IF moisture[1] <= LOW_SOIL_MOISTURE THEN "dry"
  ELSE IF moisture[1] > HIGH_SOIL_MOISTURE THEN "saturated"
  ELSE "optimal"

\* services.py:142-151; moisture is <<>> for None
_assess_soil_moisture(moisture) ==
  IF moisture = <<>> THEN "unknown"
  ELSE IF moisture[1] < LOW_SOIL_MOISTURE THEN "dry"
  ELSE IF moisture[1] > HIGH_SOIL_MOISTURE THEN "saturated"
  ELSE "optimal"

\* The service and a translator are given the same reading.
assess_soil ==
  /\ call.fn = ""
  /\ call' = [call EXCEPT
        !.fn = "soil",
        !.out = [moisture_status |-> _assess_soil_moisture(<<call.value>>),
                 soil_condition |->
                   get_soil_condition(call.language, call.value)]]
  /\ UNCHANGED <<now, locations, nextLoc, locCache, wd, al, nextWd, nextAl,
                 canon_wd, canon_al, lock, lastSync, pc, arg, todo, marks,
                 ret, cwCache, got, canon_fc>>

\* soil_moisture is a percentage (models.py validators 0..100)
Percentages == 0..100

\* SpecSoil: every percentage is assessed by both components.
InitSoil ==
  /\ InitStores
  /\ call \in {[language |-> WeatherTranslator(p), value |-> m, fn |-> "",
                 out |-> None] : p \in LANGUAGES, m \in Percentages}

NextSoil == assess_soil

SpecSoil == InitSoil /\ [][NextSoil]_vars

\* ------------------------------------------------------ upcoming alerts
\* models.py:402-408; the result is <<>> for None, <<d>> for a duration
get_duration(alert) ==
  IF alert.resolved_at # <<>> THEN <<alert.resolved_at[1] - alert.start_time>>
  ELSE IF ~alert.is_active THEN <<alert.end_time - alert.start_time>>
  ELSE <<>>

\* Alerts announced ahead of their start, and alerts already under way.
UpcomingAlertPayloads ==
  [loc : InitLocations, alert_type : AlertTypes, severity : Severities,
   start_time : {now + 1, now - 1}, end_time : {now + 2}]

\* SpecUpcoming: alerts are announced ahead of time and resolved.
NextUpcoming ==
  \/ \E data \in UpcomingAlertPayloads : create_weather_alert(data)
  \/ \E i \in 1..MaxCanon, notes \in ResolutionNotes, impact \in ActualImpacts :
       resolve(i, notes, impact)
  \/ \E i \in 1..MaxCanon, notes \in ResolutionNotes, impact \in ActualImpacts :
       view_resolve(i, notes, impact)
  \/ TickTo(MaxAlertClock)

SpecUpcoming == Init /\ [][NextUpcoming]_vars

\* ------------------------------------------------------ last-sync marker
\* Readings and alerts captured at the time of the call.
FreshPayloads(kind) ==
  IF kind = "weather_data" THEN [temperature : Temps, timestamp : {now}]
  ELSE {[alert_type |-> a, severity |-> "HIGH", start_time |-> now,
         end_time |-> now + AlertDuration] : a \in AlertTypes}

\* SpecMarker: one reconciliation caller; rows are captured for a location
\* that exists and for one that does not, so passes fail and succeed.
NextMarker ==
  \/ \E L \in LocIds, kind \in {"weather_data", "alert"} :
       \E data \in FreshPayloads(kind) : store_offline_data(L, kind, data)
  \/ \E L \in LocIds : SyncStart(1, L)
  \/ SyncSaveWeather(1)
  \/ SyncMarkWeather(1)
  \/ SyncFetchAlerts(1)
  \/ SyncSaveAlert(1)
  \/ SyncMarkAlert(1)
  \/ SyncCommit(1)
  \/ TickHours(SYNC_FREQUENCY)

SpecMarker == Init /\ [][NextMarker]_vars

\* ------------------------------------------------------- periodic sync
\* A sync-frequency window elapses: every last-sync entry expires.  The
\* clock stops counting at MaxHours, the windows keep elapsing.
SyncWindowElapses ==
  /\ \A p \in Procs : pc[p] = "idle"
  /\ now' = IF now + SyncInterval <= MaxHours * 60 THEN now + SyncInterval
            ELSE now
  /\ lastSync' = <<>>
  /\ UNCHANGED <<locations, nextLoc, locCache, call, wd, al, nextWd, nextAl,
                 canon_wd, canon_al, lock, pc, arg, todo, marks, ret, cwCache,
                 got, canon_fc>>

\* SpecLive: rows are captured for an existing location, whose canonical
\* writes succeed; sync_data is called again after every window and each
\* pass runs to its end.
NextLive ==
  \/ \E L \in InitLocations, kind \in {"weather_data", "alert"} :
       \E data \in FreshPayloads(kind) : store_offline_data(L, kind, data)
  \/ \E L \in InitLocations : SyncStart(1, L)
  \/ SyncSaveWeather(1)
  \/ SyncMarkWeather(1)
  \/ SyncFetchAlerts(1)
  \/ SyncSaveAlert(1)
  \/ SyncMarkAlert(1)
  \/ SyncCommit(1)
  \/ SyncWindowElapses

SpecLive ==
  /\ Init /\ [][NextLive]_vars
  /\ WF_vars(\E L \in InitLocations : SyncStart(1, L))
  /\ WF_vars(SyncSaveWeather(1)) /\ WF_vars(SyncMarkWeather(1))
  /\ WF_vars(SyncFetchAlerts(1))
  /\ WF_vars(SyncSaveAlert(1)) /\ WF_vars(SyncMarkAlert(1))
  /\ WF_vars(SyncCommit(1))
  /\ WF_vars(SyncWindowElapses)

\* ---------------------------------------------------------------- claims
HasCanonWeather(r) ==
  \E i \in DOMAIN canon_wd :
     /\ canon_wd[i].src = r.id /\ canon_wd[i].loc = r.loc
     /\ canon_wd[i].temperature = r.temperature
     /\ canon_wd[i].timestamp = fromisoformat(r.timestamp)
HasCanonAlert(r) ==
  \E i \in DOMAIN canon_al :
     /\ canon_al[i].src = r.id /\ canon_al[i].loc = r.loc
     /\ canon_al[i].alert_type = r.alert_type
     /\ canon_al[i].start_time = fromisoformat(r.start_time)
     /\ canon_al[i].end_time = fromisoformat(r.end_time)

\* C1: a sync_data(L) call that finds the last-sync marker of L inside the
\* sync-frequency window returns true, writes nothing to the canonical store
\* and leaves the local store unchanged.
C1_RateLimitedCallIsNoOpSuccess ==
  [][(ret' # ret /\ ret'.op = "sync" /\ ret'.why = "ratelimited")
       => (ret'.val = TRUE /\ UNCHANGED <<wd, al, canon_wd, canon_al>>)]_vars

\* C2: every local observation or alert row marked synced, committed or
\* still inside a pass's open transaction, has its row in the canonical
\* store, written by a sync pass.
C2_SyncedRowHasCanonicalRow ==
  /\ \A r \in wd : (r.sync_status = "synced" \/ \E p \in Procs : r.id \in marks[p].wd)
                      => HasCanonWeather(r)
  /\ \A r \in al : (r.sync_status = "synced" \/ \E p \in Procs : r.id \in marks[p].al)
                      => HasCanonAlert(r)

C2_Witness ==
  /\ \E r \in wd : r.sync_status = "synced"
  /\ \E r \in al : r.sync_status = "synced"
  /\ ret.op = "sync" /\ ret.val = TRUE

\* C3: a step deletes a local observation (alert) row only if the row is
\* synced and its timestamp (end_time) is older than now minus the minimum
\* retention window; pending rows and newer synced rows stay.
C3_CleanupDeletesOnlySyncedOld ==
  [][/\ \A r \in wd : (\A r2 \in wd' : r2.id # r.id)
          => (r.sync_status = "synced" /\
              fromisoformat(r.timestamp) < now - RetentionMinutes)
     /\ \A r \in al : (\A r2 \in al' : r2.id # r.id)
          => (r.sync_status = "synced" /\
              fromisoformat(r.end_time) < now - RetentionMinutes)]_vars

C3_Witness ==
  /\ ret.op = "cleanup" /\ ret.val = TRUE
  /\ \E i \in 1..(nextWd - 1) : \A r \in wd : r.id # i
  /\ \E r \in wd : r.sync_status = "pending" /\
                   fromisoformat(r.timestamp) < now - RetentionMinutes

\* C4: when a pass ends on a row whose canonical write failed, every other
\* row of that batch whose canonical write succeeds has been written and is
\* marked synced.
C4_FailingRowDoesNotBlockOthers ==
  (ret.op = "sync" /\ ret.why = "save_failed") =>
     \A i \in 2..Len(ret.rest) :
        SaveSucceeds(ret.rest[i]) =>
           IF ret.kind = "weather_data"
           THEN HasCanonWeather(ret.rest[i]) /\
                \E r \in wd : r.id = ret.rest[i].id /\ r.sync_status = "synced"
           ELSE HasCanonAlert(ret.rest[i]) /\
                \E r \in al : r.id = ret.rest[i].id /\ r.sync_status = "synced"

\* C5: once no pass is in flight, no local row is pending while its
\* canonical row already exists: what a stopped pass wrote stays marked
\* synced.
C5_WrittenRowsStaySynced ==
  (\A p \in Procs : pc[p] = "idle") =>
     /\ \A r \in wd : r.sync_status = "pending" => ~HasCanonWeather(r)
     /\ \A r \in al : r.sync_status = "pending" => ~HasCanonAlert(r)

\* C6: under any interleaving of two passes each local row is written to
\* the canonical store at most once.
C6_WrittenAtMostOnce ==
  /\ \A i, j \in DOMAIN canon_wd : canon_wd[i].src = canon_wd[j].src => i = j
  /\ \A i, j \in DOMAIN canon_al : canon_al[i].src = canon_al[j].src => i = j

\* C7: a pass started as sync_data(L) writes, and marks, only rows whose
\* location_id is L.
C7_SyncTouchesOnlyItsLocation ==
  /\ \A i \in DOMAIN canon_wd : canon_wd[i].by = canon_wd[i].loc
  /\ \A i \in DOMAIN canon_al : canon_al[i].by = canon_al[i].loc
  /\ \A p \in Procs : \A r \in wd : r.id \in marks[p].wd => r.loc = arg[p]
  /\ \A p \in Procs : \A r \in al : r.id \in marks[p].al => r.loc = arg[p]

\* C8: store_offline_data with a kind outside the supported set does not
\* return success and appends no row.
C8_UnsupportedKindIsError ==
  [][(ret' # ret /\ ret'.op = "store" /\ ret'.kind = "invalid_type")
       => (ret'.val = FALSE /\ UNCHANGED <<wd, al>>)]_vars

\* C9: after store_offline_data(L, k, p) returned success for k in
\* {weather_data, alert}, get_offline_data(L, k) holds a pending row with
\* p's fields.
C9_StoreThenGetSameKind ==
  (ret.op = "store" /\ ret.val = TRUE /\ ret.kind \in {"weather_data", "alert"}) =>
     LET rows == get_offline_data(ret.loc, ret.kind, <<>>) IN
     \E i \in DOMAIN rows :
        /\ rows[i].sync_status = "pending"
        /\ IF ret.kind = "weather_data"
           THEN /\ rows[i].temperature = ret.row.temperature
                /\ fromisoformat(rows[i].timestamp) = ret.row.timestamp
           ELSE /\ rows[i].alert_type = ret.row.alert_type
                /\ fromisoformat(rows[i].start_time) = ret.row.start_time
                /\ fromisoformat(rows[i].end_time) = ret.row.end_time

\* C10: whatever get_current_weather(L) returns, from the cache or from the
\* canonical store, is none or an observation whose own timestamp lies
\* inside the recency window at the time of the call.
C10_CurrentWeatherInsideWindow ==
  (got # None /\ got.val # None) => got.val.timestamp >= got.at - RecencyWindow

\* C11 (as stated): a get_location(id) call fails with InvalidLocationError
\* whenever the canonical store holds no location with that id at the time
\* of the call, and a failed lookup leaves the cache as it was.
C11_NotFoundWheneverAbsent ==
  [][(ret' # ret /\ ret'.op = "get_location") =>
       /\ ret'.loc \notin locations => ret'.why = "InvalidLocationError"
       /\ ret'.why = "InvalidLocationError" => UNCHANGED locCache]_vars

\* C11 (amended): a get_location(id) call fails with InvalidLocationError
\* whenever the cache holds no unexpired entry for id and the canonical
\* store holds no location with that id; it fails only when the store holds
\* none, and a failed lookup leaves the cache as it was.
C11_NotFoundWhenAbsentAndUncached ==
  [][(ret' # ret /\ ret'.op = "get_location") =>
       /\ (ret'.loc \notin locations /\ CacheGetLocation(ret'.loc) = None)
             => ret'.why = "InvalidLocationError"
       /\ ret'.why = "InvalidLocationError" =>
             (ret'.loc \notin locations /\ UNCHANGED locCache)]_vars

\* a lookup of a location that was created and deleted fails while another
\* location sits in the cache
C11_Witness ==
  /\ ret.op = "get_location" /\ ret.why = "InvalidLocationError"
  /\ ret.loc < nextLoc /\ ret.loc \notin locations
  /\ locCache # <<>>

\* C12: the list get_active_alerts returns is ordered by severity rank
\* descending (EXTREME > HIGH > MEDIUM > LOW), alerts of equal severity by
\* start_time descending.
C12_ActiveAlertsBySeverityRank ==
  ret.op = "get_active_alerts" =>
    \A k, l \in DOMAIN ret.rest : k < l =>
       \/ ALERT_SEVERITY_LEVELS[ret.rest[k].severity]
            > ALERT_SEVERITY_LEVELS[ret.rest[l].severity]
       \/ /\ ret.rest[k].severity = ret.rest[l].severity
          /\ ret.rest[k].start_time >= ret.rest[l].start_time

\* C13: an alert that is resolved (is_active false, resolved_at stamped) is
\* in no list get_active_alerts returns, and no step sets its is_active
\* back to true.
C13_ResolvedStaysInactive ==
  /\ [](ret.op = "get_active_alerts" =>
          \A k \in DOMAIN ret.rest : ~Resolved(canon_al[ret.rest[k].id]))
  /\ [][\A i \in DOMAIN canon_al : Resolved(canon_al[i]) =>
           (i \in DOMAIN canon_al' /\ ~canon_al'[i].is_active)]_vars

\* a list was returned for a location that has a resolved, unexpired alert
\* beside the returned ones
C13_Witness ==
  /\ ret.op = "get_active_alerts" /\ ret.rest # <<>>
  /\ \E i \in DOMAIN canon_al :
        /\ Resolved(canon_al[i]) /\ canon_al[i].loc = ret.loc
        /\ canon_al[i].end_time > now

\* C14: resolving an alert that is already resolved leaves its resolved_at,
\* resolution_notes and actual_impact as the first resolution set them.
C14_ResolvedOnce ==
  [][\A i \in DOMAIN canon_al : Resolved(canon_al[i]) =>
        /\ i \in DOMAIN canon_al'
        /\ canon_al'[i].resolved_at = canon_al[i].resolved_at
        /\ canon_al'[i].resolution_notes = canon_al[i].resolution_notes
        /\ canon_al'[i].actual_impact = canon_al[i].actual_impact]_vars

\* C15: every WeatherAlert in the canonical store, written by
\* create_weather_alert or by a sync pass from a stored alert payload, has
\* start_time < end_time; a payload with start_time >= end_time is never
\* written.
C15_CanonicalAlertStartsBeforeEnd ==
  \A i \in DOMAIN canon_al : canon_al[i].start_time < canon_al[i].end_time

\* the fields the registry bounds, each inside its bounds (inclusive)
InRegistryBounds(d) ==
  /\ MIN_TEMPERATURE <= d.temperature /\ d.temperature <= MAX_TEMPERATURE
  /\ MIN_HUMIDITY <= d.humidity /\ d.humidity <= MAX_HUMIDITY
  /\ 0 <= d.rainfall /\ d.rainfall <= MAX_RAINFALL
  /\ 0 <= d.wind_speed /\ d.wind_speed <= MAX_WIND_SPEED

\* the messages that name a field of d lying outside its bounds
OffendingMessages(d) ==
  {m \in {"Temperature out of valid range", "Humidity out of valid range",
          "Wind speed out of valid range", "Rainfall out of valid range"} :
     \/ m = "Temperature out of valid range" /\
          ~(MIN_TEMPERATURE <= d.temperature /\ d.temperature <= MAX_TEMPERATURE)
     \/ m = "Humidity out of valid range" /\
          ~(MIN_HUMIDITY <= d.humidity /\ d.humidity <= MAX_HUMIDITY)
     \/ m = "Wind speed out of valid range" /\
          ~(0 <= d.wind_speed /\ d.wind_speed <= MAX_WIND_SPEED)
     \/ m = "Rainfall out of valid range" /\
          ~(0 <= d.rainfall /\ d.rainfall <= MAX_RAINFALL)}

\* C16: create_weather_data persists a reading only if temperature and
\* humidity lie between their registry minimum and maximum and rainfall and
\* wind speed between 0 and their maximum (inclusive); any other reading
\* fails with an error that names an offending field and leaves the store
\* unchanged.
C16_PersistsOnlyInsideBounds ==
  [][(ret' # ret /\ ret'.op = "create_weather_data") =>
       IF InRegistryBounds(ret'.row)
       THEN ret'.val = TRUE /\ Len(canon_wd') = Len(canon_wd) + 1
       ELSE /\ ret'.val = FALSE
            /\ ret'.why \in OffendingMessages(ret'.row)
            /\ UNCHANGED canon_wd]_vars

\* C17: no step, of create_weather_data or of a sync pass, writes an
\* observation into the canonical store whose timestamp is later than the
\* time of the write or whose temperature lies outside the registry bounds.
C17_NoFutureObservationWritten ==
  [][\A i \in DOMAIN canon_wd' : i \notin DOMAIN canon_wd =>
        /\ canon_wd'[i].timestamp <= now
        /\ MIN_TEMPERATURE <= canon_wd'[i].temperature
        /\ canon_wd'[i].temperature <= MAX_TEMPERATURE]_vars

\* the outcomes of a sync_data call that went through the except branch:
\* AttributeError on the cache hit, an error of save(), a locked database
ErrorMet(r) == r.why \in {"ratelimited", "save_failed", "locked"}

\* C18: a sync_data call always returns a boolean to its caller: false when
\* the call met an error, true when it met none and ran to its end.
C18_SyncReturnsBooleanNeverRaises ==
  ret.op = "sync" =>
    /\ ret.why \in {"ratelimited", "save_failed", "locked", "completed"}
    /\ ret.val \in BOOLEAN
    /\ ret.val = ~ErrorMet(ret)

\* a pass stopped at a row the canonical store refused, after it had
\* written another row, and returned false
C18_Witness ==
  /\ ret.op = "sync" /\ ret.why = "save_failed" /\ ret.val = FALSE
  /\ canon_wd # <<>>

\* C19: every method of a translator constructed with an unsupported
\* language code gives the text a translator constructed with the default
\* language gives for the same input.
C19_UnsupportedLanguageGivesDefaultText ==
  (call # None /\ call.fn # "" /\ call.preferred # "" /\
   call.preferred \notin LANGUAGES) =>
     call.out = Translate(WeatherTranslator(DEFAULT_LANGUAGE), call.fn,
                          call.key, call.value)

\* the risk factors whose condition holds, in the order cold stress, heat
\* stress, disease risk, drought risk; soil moisture is present when it is
\* not None
ExpectedRiskFactors(weather, crop) ==
  (IF weather.temperature <= crop.min_temp
   THEN <<"Cold stress risk">> ELSE <<>>)
  \o (IF weather.temperature >= crop.max_temp
      THEN <<"Heat stress risk">> ELSE <<>>)
  \o (IF weather.humidity >= HIGH_HUMIDITY
      THEN <<"Disease risk due to high humidity">> ELSE <<>>)
  \o (IF weather.soil_moisture # <<>> /\
         weather.soil_moisture[1] < crop.min_soil_moisture
      THEN <<"Drought stress risk">> ELSE <<>>)

\* C20: the risk-factor list of assess_crop_suitability holds exactly the
\* risks whose condition holds, in that order; drought risk is listed for
\* every present soil_moisture below crop.min_soil_moisture, 0 included.
C20_RiskFactorsExactlyThoseThatHold ==
  (call # None /\ call.fn = "assess_crop_suitability") =>
     call.out.risk_factors = ExpectedRiskFactors(call.weather_data, call.crop)

\* C21: get_agricultural_metrics(L) either fails with WeatherDataError, when
\* L has no history in the trailing window, or returns the metrics; there is
\* no third outcome, also when no observation is recent enough to be current.
C21_MetricsFailOnlyWithoutHistory ==
  ret.op = "get_agricultural_metrics" =>
    ret.kind \in {"WeatherDataError", "result"}

Min(a, b) == IF a < b THEN a ELSE b

\* C22: get_weather_forecast(L, days) returns exactly the forecasts of L dated
\* in [today, today + min(days, MAX_FORECAST_DAYS)), each once, in ascending
\* order of forecast_date; none is dated at or after
\* today + MAX_FORECAST_DAYS, whatever span was requested.
C22_ForecastWindowClamped ==
  [][(ret' # ret /\ ret'.op = "get_weather_forecast") =>
       LET q == ret'.rest
           span == Min(ret'.row.days, MAX_FORECAST_DAYS)
       IN /\ {q[k].id : k \in DOMAIN q} =
               {i \in DOMAIN canon_fc :
                  /\ canon_fc[i].loc = ret'.loc
                  /\ today <= canon_fc[i].forecast_date
                  /\ canon_fc[i].forecast_date < today + span}
          /\ \A k, l \in DOMAIN q : k # l => q[k].id # q[l].id
          /\ \A k \in DOMAIN q : q[k] = ForecastObject(q[k].id)
          /\ \A k, l \in DOMAIN q :
               k < l => q[k].forecast_date <= q[l].forecast_date
          /\ \A k \in DOMAIN q :
               q[k].forecast_date < today + MAX_FORECAST_DAYS]_vars

\* A span above the longest was requested, forecasts came back, and the
\* location has a forecast dated one longest span after the day of the call.
C22_Witness ==
  /\ ret.op = "get_weather_forecast"
  /\ ret.row.days > MAX_FORECAST_DAYS
  /\ Len(ret.rest) = 2
  /\ ret.rest[1].forecast_date < ret.rest[2].forecast_date
  /\ \E i \in DOMAIN canon_fc :
       /\ canon_fc[i].loc = ret.loc
       /\ canon_fc[i].forecast_date = ret.row.today + MAX_FORECAST_DAYS

\* The trend the analysis is described to give: the difference of the half
\* means must exceed the threshold for a direction to be reported.
ExpectedTrend(values) ==
  IF Len(values) < 2 THEN "stable"
  ELSE LET scale == Len(FirstHalf(values)) * Len(SecondHalf(values))
       IN IF ScaledDiff(values) > TrendThreshold * scale THEN "increasing"
          ELSE IF ScaledDiff(values) < 0 - TrendThreshold * scale
          THEN "decreasing"
          ELSE "stable"

\* C23: the trend of a series of two or more values is increasing when the
\* mean of the second half exceeds the mean of the first by more than 0.1,
\* decreasing when it is lower by more than 0.1, and stable otherwise, also
\* at a difference of exactly 0.1; a shorter series is stable.
C23_TrendNeedsMoreThanThreshold ==
  call.fn = "_calculate_trend" => call.out = ExpectedTrend(call.values)

\* C24: for every soil moisture in 0..100 the service's status and the
\* translator's soil condition name corresponding bands (dry/DRY,
\* optimal/MOIST, saturated/WET), dry below 30 and wet above 70, with 30 and
\* 70 in the middle band.
C24_SoilBandsAgree ==
  call.fn = "soil" =>
    LET status == call.out.moisture_status
        text == call.out.soil_condition
        Says(band) == text = SOIL_CONDITIONS[band][call.language]
    IN /\ status \in {"dry", "optimal", "saturated"}
       /\ (status = "dry") = Says("DRY")
       /\ (status = "optimal") = Says("MOIST")
       /\ (status = "saturated") = Says("WET")
       /\ (status = "dry") = (call.value < 30)
       /\ (status = "saturated") = (call.value > 70)

\* The lower boundary value has been assessed, and both components put it
\* in the middle band.
C24_Witness ==
  /\ call.fn = "soil"
  /\ call.value = 30
  /\ call.out.moisture_status = "optimal"
  /\ call.out.soil_condition = SOIL_CONDITIONS["MOIST"][call.language]

\* C25: when store_offline_data returns success for one of the kinds
\* weather_data, alert and forecast, exactly one row has been appended to the
\* local table of that kind, and it is pending.
C25_StoreSuccessAppendsOnePendingRow ==
  [][(ret' # ret /\ ret'.op = "store" /\ ret'.val = TRUE /\
      ret'.kind \in {"weather_data", "alert", "forecast"})
       => /\ LocalTable(ret'.kind) \subseteq LocalTableAfter(ret'.kind)
          /\ Cardinality(LocalTableAfter(ret'.kind)) =
               Cardinality(LocalTable(ret'.kind)) + 1
          /\ \A r \in LocalTableAfter(ret'.kind) \ LocalTable(ret'.kind) :
               r.sync_status = "pending"]_vars

\* C26: get_current_weather never caches an absent result.  A call that
\* answers none leaves the cache as it was, and when the preceding call for
\* the location answered none and an observation of the location now lies
\* inside the recency window, the call returns the most recent such
\* observation.
C26_AbsentResultNotCached ==
  [][got' # got =>
       /\ got'.val = None => UNCHANGED cwCache
       /\ \A L \in DOMAIN cwCache' : cwCache'[L].obj # None
       /\ (got'.before = "none" /\
           RecentRows(got'.loc, now - RecencyWindow) # {})
            => /\ got'.val # None
               /\ got'.val.id \in
                    FirstByTimestampDesc(
                      RecentRows(got'.loc, now - RecencyWindow))]_vars

\* A call answered none, and the next call for the location returned an
\* observation inside the recency window.
C26_Witness ==
  /\ got # None
  /\ got.before = "none"
  /\ got.val # None
  /\ got.val.timestamp >= got.at - RecencyWindow

\* The observation written last is inside the recency window and newer than
\* every other observation of its location.
NewestJustCreated(location_id) ==
  /\ ret.op = "create_weather_data" /\ ret.val /\ ret.loc = location_id
  /\ canon_wd # <<>>
  /\ canon_wd[Len(canon_wd)].timestamp >= now - RecencyWindow
  /\ \A i \in 1..(Len(canon_wd) - 1) :
       canon_wd[i].loc = location_id =>
         canon_wd[i].timestamp < canon_wd[Len(canon_wd)].timestamp

\* C27 (as stated): after create_weather_data wrote for L an observation
\* newer than every other observation of L, get_current_weather(L) returns
\* that observation, whatever was cached before the write.
C27_NewObservationNeverMasked ==
  [][(got' # got /\ NewestJustCreated(got'.loc)) =>
       (got'.val # None /\ got'.val.id = Len(canon_wd))]_vars

\* C27 (amended): the same, when the cache holds no unexpired current-weather
\* entry for L at the call; otherwise the cached observation is returned.
C27_NewObservationReturnedOnCacheMiss ==
  [][(got' # got /\ NewestJustCreated(got'.loc)) =>
       IF CacheGetCurrentWeather(got'.loc) = None
       THEN got'.val # None /\ got'.val.id = Len(canon_wd)
       ELSE got'.val = CacheGetCurrentWeather(got'.loc)]_vars

\* The older observation was returned, its cache entry expired, a newer
\* observation was written and then returned.
C27_Witness ==
  /\ NewestJustCreated(1)
  /\ Len(canon_wd) = 2
  /\ canon_wd[1].loc = 1
  /\ got # None /\ got.loc = 1
  /\ got.before = "found"
  /\ got.val # None
  /\ got.val.id = 2

\* C28: every alert that has been resolved has resolved_at >= start_time, so
\* the duration get_duration reports for it is not negative, also when it
\* was resolved before its start_time was reached.
C28_ResolvedNotBeforeStart ==
  \A i \in DOMAIN canon_al :
    canon_al[i].resolved_at # <<>> =>
      /\ canon_al[i].resolved_at[1] >= canon_al[i].start_time
      /\ get_duration(canon_al[i])[1] >= 0

HasStatus(table, id, status) ==
  \E r \in table : r.id = id /\ r.loc \in InitLocations /\ r.sync_status = status

C30_MarkerOnlyBySuccessfulPass ==
  [][/\ (ret' # ret /\ ret'.op = "sync" /\ ~ret'.val) => UNCHANGED lastSync
     /\ (pc[1] # "idle" /\ pc'[1] = "idle" /\ ~ret'.val)
          => (UNCHANGED lastSync /\ arg[1] \notin DOMAIN lastSync')
     /\ \A L \in DOMAIN lastSync' :
          (L \notin DOMAIN lastSync \/ lastSync'[L] # lastSync[L])
            => /\ pc[1] = "commit" /\ pc'[1] = "idle" /\ arg[1] = L
               /\ ret'.op = "sync" /\ ret'.val /\ ret'.loc = L]_vars

\* A pass for location 1 failed on a canonical write and left no entry,
\* while an earlier pass had synced a row.
C30_Witness ==
  /\ ret.op = "sync" /\ ~ret.val /\ ret.why = "save_failed" /\ ret.loc = 1
  /\ pc[1] = "idle"
  /\ 1 \notin DOMAIN lastSync
  /\ \E r \in wd \cup al : r.sync_status = "synced"

====
